---- MODULE Spec2Model ----
(***************************************************************************)
(* Model of src/python/src/utils/create_clob_client.py:                    *)
(*   is_contract_wallet, run_clob_bridge, ClobClient (constructor and      *)
(*   post_order) and create_clob_client.                                   *)
(*                                                                         *)
(* Python values:                                                          *)
(*   process output (bytes, and the str decoded from it), messages and     *)
(*               the host URL: a sequence of chunks, each chunk a TLA+     *)
(*               string; the empty bytes/str is << >>                      *)
(*   other str   (environment values, addresses, credential and order      *)
(*               fields): a TLA+ string, "" when empty, None when absent   *)
(*   dict        a function from key strings to values; {} is << >>.  An   *)
(*               absent dict argument is << >> too: the code only tests    *)
(*               such arguments for truthiness (lines 76-81, 117)          *)
(***************************************************************************)
EXTENDS Integers, Sequences, FiniteSets, TLC

None == "<None>"

(***************************************************************************)
(* Chunks of process output.                                               *)
(***************************************************************************)
WS      == "\n"                                   \* a run of whitespace
Junk    == "boom"                                 \* plain text, not JSON
BadByte == "\\xff"                                \* a byte that is not UTF-8
Obj0    == "{}"
ObjT    == "{\"success\":true}"
ObjF    == "{\"success\":false,\"error\":\"e\"}"

\* Bound on the number of post_order calls of one run.
MaxOrders == 2

(***************************************************************************)
(* Python helpers.                                                         *)
(***************************************************************************)
\* truthiness of a chunk sequence or a dict
Truthy(v) == v # << >>

\* truthiness of an Optional[str]
TruthyStr(v) == v # None /\ v # ""

\* dict.get(k)
Get(d, k) == IF k \in DOMAIN d THEN d[k] ELSE None

\* a or b
Or(a, b) == IF Truthy(a) THEN a ELSE b

OrStr(a, b) == IF TruthyStr(a) THEN a ELSE b

Returned(v) == [raised |-> FALSE, value |-> v]
Raised(e)   == [raised |-> TRUE, exc |-> e]

\* bytes.decode(): strict UTF-8
Decode(b) ==
    IF \E i \in 1..Len(b) : b[i] = BadByte
    THEN Raised("UnicodeDecodeError")
    ELSE Returned(b)

RECURSIVE LStrip(_)
LStrip(s) == IF s # << >> /\ Head(s) = WS THEN LStrip(Tail(s)) ELSE s

RECURSIVE RStrip(_)
RStrip(s) ==
    IF s # << >> /\ s[Len(s)] = WS THEN RStrip(SubSeq(s, 1, Len(s) - 1)) ELSE s

\* str.strip()
Strip(s) == RStrip(LStrip(s))

\* str.rstrip('/')
RECURSIVE RStripSlash(_)
RStripSlash(s) ==
    IF s # << >> /\ s[Len(s)] = "/" THEN RStripSlash(SubSeq(s, 1, Len(s) - 1)) ELSE s

\* The JSON documents among the chunks, and the value each parses to.
JsonDocs == {Obj0, ObjT, ObjF}

JsonValue(c) ==
    CASE c = Obj0 -> << >>
      [] c = ObjT -> [success |-> TRUE]
      [] c = ObjF -> [success |-> FALSE, error |-> <<"e">>]

\* json.loads(s): one document, whitespace allowed around it
JsonLoads(s) ==
    LET t == Strip(s) IN
    IF Len(t) = 1 /\ t[1] \in JsonDocs
    THEN Returned(JsonValue(t[1]))
    ELSE Raised("JSONDecodeError")

(***************************************************************************)
(* is_contract_wallet                                                      *)
(***************************************************************************)
ValidAddress == "0x1111111111111111111111111111111111111111"
Addresses    == {ValidAddress, "not-an-address"}

\* Web3.to_checksum_address(address) succeeds
Normalizable(address) == address = ValidAddress

\* the literal b'0x': the two ASCII bytes '0' and 'x'
LiteralHexPrefix == <<48, 120>>

\* What w3.eth.get_code can do: raise, or return the account's code bytes
\* (empty for an externally-owned account).
RpcOutcomes ==
    { [kind |-> "raise", code |-> << >>] } \cup
    { [kind |-> "ok", code |-> c] : c \in { << >>, <<48, 120>>, <<96, 128>> } }

NotCalled == [kind |-> "not_called", code |-> << >>]

IsContractWallet(address, rpc) ==
    IF ~Normalizable(address) THEN FALSE      \* to_checksum_address raises
    ELSE IF rpc.kind = "raise" THEN FALSE     \* get_code raises
    ELSE rpc.code # LiteralHexPrefix

(***************************************************************************)
(* run_clob_bridge                                                         *)
(***************************************************************************)
NodeMissingMsg   == <<"Node.js is required for CLOB execution. Install Node.js >=18.">>
ScriptMissingMsg == <<"CLOB bridge script not found at ", "scripts/clob_bridge.mjs">>
BridgeFailedMsg  == <<"CLOB bridge failed">>
InvalidMsg       == <<"Invalid response from CLOB bridge">>

Failure(msg) == [success |-> FALSE, error |-> msg]

\* error_output = (stderr.decode() or stdout.decode()).strip()
ErrorOutput(stdout, stderr) ==
    LET e == Decode(stderr) IN
    IF e.raised THEN e
    ELSE IF Truthy(e.value) THEN Returned(Strip(e.value))
    ELSE LET o == Decode(stdout) IN
         IF o.raised THEN o ELSE Returned(Strip(o.value))

\* json.loads(stdout.decode() or '{}'), JSONDecodeError caught
ParseOutput(stdout) ==
    LET o == Decode(stdout) IN
    IF o.raised THEN o
    ELSE LET r == JsonLoads(Or(o.value, <<Obj0>>)) IN
         IF r.raised THEN Returned(Failure(InvalidMsg)) ELSE r

\* proc: what the environment does with the call (node on the path, the
\* script on disk, and the exit status and output of the spawned process)
RunClobBridge(proc, action, payload) ==
    IF ~proc.node THEN Returned(Failure(NodeMissingMsg))
    ELSE IF ~proc.script THEN Returned(Failure(ScriptMissingMsg))
    ELSE IF proc.returncode # 0 THEN
        LET eo == ErrorOutput(proc.stdout, proc.stderr) IN
        IF eo.raised THEN eo
        ELSE Returned(Failure(Or(eo.value, BridgeFailedMsg)))
    ELSE ParseOutput(proc.stdout)

StdoutSamples ==
    { << >>, <<WS>>, <<Junk>>, <<BadByte>>, <<Obj0>>, <<ObjT>>, <<ObjF>>,
      <<WS, ObjT, WS>>, <<ObjT, Junk>> }

StderrSamples == { << >>, <<WS>>, <<Junk, WS>>, <<BadByte>> }

\* A process that exits 0 is taken with silent stderr or with a warning on it.
Procs ==
    { [node |-> n, script |-> s, returncode |-> 0, stdout |-> << >>, stderr |-> << >>] :
        <<n, s>> \in { <<FALSE, FALSE>>, <<FALSE, TRUE>>, <<TRUE, FALSE>> } }
    \cup
    { [node |-> TRUE, script |-> TRUE, returncode |-> 1, stdout |-> o, stderr |-> e] :
        o \in StdoutSamples, e \in StderrSamples }
    \cup
    { [node |-> TRUE, script |-> TRUE, returncode |-> 0, stdout |-> o, stderr |-> e] :
        o \in StdoutSamples, e \in { << >>, <<Junk, WS>> } }

(***************************************************************************)
(* The environment (config.env.ENV and os.environ), fixed for a run.       *)
(***************************************************************************)
CLOB_HTTP_URL == <<"https://clob.polymarket.com", "/">>
PRIVATE_KEY   == "0xprivatekey"

\* os.getenv('CLOB_SIGNATURE_TYPE'): None when unset, else the string set
Overrides == {None, "", "EOA", "POLY_PROXY", "POLY_GNOSIS_SAFE"}

\* Account.from_key(ENV.PRIVATE_KEY)
AccountFromKey(key) == [key |-> key]

\* chain_id = 137  # Polygon
chain_id == 137

(***************************************************************************)
(* ClobClient                                                              *)
(***************************************************************************)
NoClient == [bound |-> FALSE]

\* ClobClient.__init__
ClobClientInit(host, chainId, wallet, api_creds, signature_type, proxy_wallet) ==
    [ bound          |-> TRUE,
      host           |-> RStripSlash(host),
      chain_id       |-> chainId,
      wallet         |-> wallet,
      api_creds      |-> Or(api_creds, << >>),
      signature_type |-> signature_type,
      proxy_wallet   |-> proxy_wallet,
      api_key        |-> IF Truthy(api_creds) THEN Get(api_creds, "key") ELSE None,
      api_secret     |-> IF Truthy(api_creds) THEN Get(api_creds, "secret") ELSE None,
      api_passphrase |-> IF Truthy(api_creds) THEN Get(api_creds, "passphrase") ELSE None ]

\* What create_api_key / derive_api_key can do.  The methods of this file
\* are placeholders that return {}; the calls they stand for can also raise
\* or return credentials, and create_clob_client is written for all three.
CreateOutcomes ==
    { Raised("Exception"), Returned(<< >>), Returned([key |-> ""]),
      Returned([key |-> "k1", secret |-> "s1", passphrase |-> "p1"]) }

DeriveOutcomes ==
    { Raised("Exception"), Returned(<< >>),
      Returned([key |-> "abc", secret |-> "s2", passphrase |-> "p2"]) }

NotAttempted == [raised |-> FALSE, value |-> << >>, attempted |-> FALSE]

\* the order objects handed to post_order (None is << >>), and order types
OrderSamples ==
    { << >>,
      [side |-> "BUY", tokenId |-> "t1", amount |-> "5", price |-> "0.5"] }

OrderTypes == {"FOK"}

\* post_order, lines 117-123
OrderArgs(signed_order) ==
    LET order == Or(signed_order, << >>) IN
    [ side    |-> Get(order, "side"),
      tokenID |-> OrStr(Get(order, "tokenID"), Get(order, "tokenId")),
      amount  |-> Get(order, "amount"),
      price   |-> Get(order, "price") ]

\* post_order, lines 125-133
Payload(client, signed_order, order_type) ==
    [ host          |-> client.host,
      chainId       |-> client.chain_id,
      signatureType |-> client.signature_type,
      funderAddress |-> client.proxy_wallet,
      privateKey    |-> PRIVATE_KEY,
      orderType     |-> order_type,
      order         |-> OrderArgs(signed_order) ]

NoCall == [bound |-> FALSE]

(***************************************************************************)
(* State                                                                   *)
(***************************************************************************)
VARIABLES
    signature_override,  \* os.getenv('CLOB_SIGNATURE_TYPE')
    PROXY_WALLET,        \* ENV.PROXY_WALLET
    pc,                  \* position in create_clob_client; "ready" once it returned
    rpc,                 \* what get_code did in is_contract_wallet
    is_proxy_contract,   \* local of create_clob_client
    signature_type,      \* local of create_clob_client (None before line 149)
    create_res,          \* what create_api_key did
    derive_res,          \* what derive_api_key did
    creds,               \* local of create_clob_client
    clob_client,         \* local of create_clob_client, the value it returns
    events,              \* the calls made so far, in order
    call,                \* the last post_order call: inputs, payload, result
    orders               \* number of post_order calls so far

vars == << signature_override, PROXY_WALLET, pc, rpc, is_proxy_contract,
           signature_type, create_res, derive_res, creds, clob_client,
           events, call, orders >>

Init ==
    /\ signature_override \in Overrides
    /\ PROXY_WALLET \in Addresses
    /\ pc = "classify"
    /\ rpc = NotCalled
    /\ is_proxy_contract = FALSE
    /\ signature_type = None
    /\ create_res = NotAttempted
    /\ derive_res = NotAttempted
    /\ creds = << >>
    /\ clob_client = NoClient
    /\ events = << >>
    /\ call = NoCall
    /\ orders = 0

(***************************************************************************)
(* create_clob_client                                                      *)
(***************************************************************************)
\* lines 147-148: the override is read, then is_contract_wallet is awaited
ClassifyWallet ==
    /\ pc = "classify"
    /\ \E r \in RpcOutcomes :
        /\ rpc' = IF Normalizable(PROXY_WALLET) THEN r ELSE NotCalled
        /\ is_proxy_contract' = IsContractWallet(PROXY_WALLET, r)
    /\ events' = events \o <<"getenv", "is_contract_wallet">>
    /\ pc' = "resolve"
    /\ UNCHANGED << signature_override, PROXY_WALLET, signature_type, create_res,
                    derive_res, creds, clob_client, call, orders >>

\* faulty variant of the resolution: the override is ignored
ResolveIgnoringOverride(override, isProxy) ==
    IF isProxy THEN "POLY_PROXY" ELSE "EOA"

\* lines 149-156
ResolveSignatureType(override, isProxy) ==
    IF TruthyStr(override) THEN override
    ELSE IF isProxy THEN "POLY_PROXY" ELSE "EOA"

\* lines 164 and 183
ProxyWalletArg(isProxy) == IF isProxy THEN PROXY_WALLET ELSE None

\* lines 149-165: resolution, then the initial client
Resolve ==
    /\ pc = "resolve"
    /\ signature_type' = ResolveSignatureType(signature_override, is_proxy_contract)
    /\ clob_client' = ClobClientInit(CLOB_HTTP_URL, chain_id, AccountFromKey(PRIVATE_KEY),
                                     << >>, signature_type',
                                     ProxyWalletArg(is_proxy_contract))
    /\ events' = events \o <<"resolve", "initial_client">>
    /\ pc' = "create"
    /\ UNCHANGED << signature_override, PROXY_WALLET, rpc, is_proxy_contract,
                    create_res, derive_res, creds, call, orders >>

\* faulty variant of the test of line 170: its "not" is missing
NeedsDeriveMissingNot(c) == TruthyStr(Get(c, "key"))

\* line 170: if not creds.get('key')
NeedsDerive(c) == ~TruthyStr(Get(c, "key"))

\* lines 168-170, 172-174
CreateApiKey ==
    /\ pc = "create"
    /\ \E out \in CreateOutcomes :
        /\ create_res' = out
        /\ IF out.raised
           THEN creds' = << >> /\ pc' = "finalize"
           ELSE /\ creds' = out.value
                /\ pc' = IF NeedsDerive(out.value) THEN "derive" ELSE "finalize"
    /\ events' = Append(events, "create_api_key")
    /\ UNCHANGED << signature_override, PROXY_WALLET, rpc, is_proxy_contract,
                    signature_type, derive_res, clob_client, call, orders >>

\* lines 171, 172-174
DeriveApiKey ==
    /\ pc = "derive"
    /\ \E out \in DeriveOutcomes :
        /\ derive_res' = out
        /\ creds' = IF out.raised THEN << >> ELSE out.value
    /\ events' = Append(events, "derive_api_key")
    /\ pc' = "finalize"
    /\ UNCHANGED << signature_override, PROXY_WALLET, rpc, is_proxy_contract,
                    signature_type, create_res, clob_client, call, orders >>

\* lines 177-186
FinalizeClient ==
    /\ pc = "finalize"
    /\ clob_client' = ClobClientInit(CLOB_HTTP_URL, chain_id, AccountFromKey(PRIVATE_KEY),
                                     creds, signature_type,
                                     ProxyWalletArg(is_proxy_contract))
    /\ events' = Append(events, "client")
    /\ pc' = "ready"
    /\ UNCHANGED << signature_override, PROXY_WALLET, rpc, is_proxy_contract,
                    signature_type, create_res, derive_res, creds, call, orders >>

(***************************************************************************)
(* ClobClient.post_order on the client create_clob_client returned         *)
(***************************************************************************)
\* faulty variant: the initial client (line 159) is already handed out
ClientAvailableEarly == clob_client.bound

\* line 186: the caller holds a client once create_clob_client has returned
ClientAvailable == pc = "ready"

PostOrder ==
    /\ ClientAvailable
    /\ orders < MaxOrders
    /\ \E signed_order \in OrderSamples, order_type \in OrderTypes, proc \in Procs :
        LET payload == Payload(clob_client, signed_order, order_type) IN
        call' = [ bound   |-> TRUE,
                  proc    |-> proc,
                  action  |-> "post_order",
                  payload |-> payload,
                  result  |-> RunClobBridge(proc, "post_order", payload) ]
    /\ events' = Append(events, "post_order")
    /\ orders' = orders + 1
    /\ UNCHANGED << signature_override, PROXY_WALLET, pc, rpc, is_proxy_contract,
                    signature_type, create_res, derive_res, creds, clob_client >>

Next ==
    \/ ClassifyWallet
    \/ Resolve
    \/ CreateApiKey
    \/ DeriveApiKey
    \/ FinalizeClient
    \/ PostOrder

Spec == Init /\ [][Next]_vars

(***************************************************************************)
(* Claims                                                                  *)
(***************************************************************************)
Classified == pc # "classify"
Resolved   == pc \notin {"classify", "resolve"}
Spawned    == call.bound /\ call.proc.node /\ call.proc.script

HasEvent(e) == \E i \in 1..Len(events) : events[i] = e

\* BridgeResponse: a map with a boolean success flag, and an error string
\* when success is false
WellFormed(v) ==
    /\ "success" \in DOMAIN v
    /\ v.success \in BOOLEAN
    /\ (v.success = FALSE => "error" \in DOMAIN v)

\* the bytes are one JSON document
ValidJson(b) == ~Decode(b).raised /\ ~JsonLoads(Decode(b).value).raised

\* C1: run_clob_bridge never raises to its caller and always returns a
\* well-formed BridgeResponse, whatever node, the script and the process do.
C1_NeverRaisesWellFormed ==
    call.bound => (~call.result.raised /\ WellFormed(call.result.value))

\* C2: every order payload carries a funderAddress exactly when its
\* signatureType is the proxy type, and none exactly when it is EOA.
C2_FunderIffProxy ==
    call.bound =>
        /\ (call.payload.funderAddress # None) <=> (call.payload.signatureType = "POLY_PROXY")
        /\ (call.payload.funderAddress = None) <=> (call.payload.signatureType = "EOA")

\* C3: is_contract_wallet is true for every address whose code is non-empty,
\* and false when the code is empty or the RPC call or normalization fails.
C3_ClassifiesByCode ==
    Classified =>
        /\ (rpc.kind = "ok" /\ rpc.code # << >>) => is_proxy_contract
        /\ (rpc.kind = "ok" /\ rpc.code = << >>) => ~is_proxy_contract
        /\ rpc.kind \in {"raise", "not_called"} => ~is_proxy_contract

\* C4: exit status 0 with standard output empty or not valid JSON gives
\* {success: false, error: "Invalid response from CLOB bridge"}.
C4_InvalidResponse ==
    (Spawned /\ call.proc.returncode = 0
        /\ (call.proc.stdout = << >> \/ ~ValidJson(call.proc.stdout)))
    => call.result = Returned(Failure(InvalidMsg))

\* the output the error of a failed process is taken from, by C5
ErrorContent(proc) ==
    IF proc.stderr # << >> THEN proc.stderr
    ELSE IF proc.stdout # << >> THEN proc.stdout
    ELSE BridgeFailedMsg

\* C5: a non-zero exit status gives success = false whatever the output, the
\* error being the standard-error content if non-empty, else the
\* standard-output content if non-empty, else the generic failure message
\* (the content is accepted with or without its surrounding whitespace).
C5_NonZeroExit ==
    (Spawned /\ call.proc.returncode # 0) =>
        /\ ~call.result.raised
        /\ call.result.value.success = FALSE
        /\ call.result.value.error \in
              {ErrorContent(call.proc), Strip(ErrorContent(call.proc))}

\* the signature type create_clob_client resolved, the client's and the
\* last payload's all equal t
SignatureTypeIs(t) ==
    /\ Resolved => (signature_type = t /\ clob_client.signature_type = t)
    /\ call.bound => call.payload.signatureType = t

\* C6 as stated: if the override is set (os.getenv gives a string), the
\* signature type of the client and of every payload is the override,
\* whatever the classification.
C6_OverrideSetWins ==
    signature_override # None => SignatureTypeIs(signature_override)

\* C6 amended: if the override is set to a non-empty string, the signature
\* type of the client and of every payload is the override, whatever the
\* classification.
C6_NonEmptyOverrideWins ==
    (signature_override # None /\ signature_override # "")
        => SignatureTypeIs(signature_override)

\* override "EOA" on a wallet classified as a contract, an order posted
C6_Witness ==
    /\ signature_override = "EOA"
    /\ is_proxy_contract
    /\ call.bound
    /\ call.payload.signatureType = "EOA"

Attempted(r) == r # NotAttempted
YieldsKey(r) == ~r.raised /\ Get(r.value, "key") \notin {None, ""}

C7_WitnessRaise ==
    /\ pc = "ready"
    /\ create_res.raised
    /\ clob_client.api_creds = << >>

\* C8: when an override value is present the classifier (and its chain RPC
\* call) is not invoked; it is invoked only when no override is present.
C8_OverrideSkipsClassifier ==
    (signature_override # None /\ signature_override # "") =>
        (~HasEvent("is_contract_wallet") /\ rpc = NotCalled)

\* C9: after resolution the signature type is a member of {EOA, POLY_PROXY},
\* for every override value and classification result.
C9_SignatureTypeInEnum ==
    /\ Resolved => signature_type \in {"EOA", "POLY_PROXY"}
    /\ call.bound => call.payload.signatureType \in {"EOA", "POLY_PROXY"}

Before(a, i) == \E j \in 1..(i - 1) : events[j] = a

\* C10: signature-type resolution completes before any order payload is
\* built or submitted, credential acquisition completes before the returned
\* client is constructed, and no post_order runs on a client whose signature
\* type is unresolved.
C10_Ordering ==
    /\ \A i \in 1..Len(events) :
        /\ events[i] = "post_order" => (Before("resolve", i) /\ Before("client", i))
        /\ events[i] = "client" =>
              /\ Before("resolve", i) /\ Before("create_api_key", i)
              /\ \A k \in (i + 1)..Len(events) :
                    events[k] \notin {"create_api_key", "derive_api_key"}
    /\ call.bound =>
        /\ signature_type # None
        /\ call.payload.signatureType = signature_type
    /\ HasEvent("client") => (creds = clob_client.api_creds /\ pc = "ready")

\* an order was posted on a client whose credentials came from derivation
C10_Witness ==
    /\ call.bound
    /\ HasEvent("derive_api_key")
    /\ events[Len(events)] = "post_order"

====
